---- MODULE Spec2Model ----
(***************************************************************************)
(* Model of streamlit_app.py: one run of main(), the BLS dashboard         *)
(* pipeline  fetch -> status check -> flatten -> CSV -> transform ->       *)
(* series selection and metrics -> rolling average.                        *)
(*                                                                         *)
(* Python strings are sequences of code points, so that the string         *)
(* comparisons of the code (the period filter, the sort keys) and its      *)
(* string conversions (str.replace, astype(int), to_numeric, the f-string  *)
(* of the error) are computed as the code computes them.                   *)
(***************************************************************************)
EXTENDS Integers, Sequences, FiniteSets, TLC

VARIABLES
    pc,            \* position of main(): start, check, normalize, csv, transform, select, rolling, done, stopped, crashed
    json_data,     \* the decoded API response (line 28)
    error_shown,   \* what st.error displayed (line 32)
    bls_list,      \* the flattened table (lines 36-49)
    txt_files,     \* <series_id>.txt, per series id (lines 52-53)
    csv_file,      \* bls_data.csv (line 59)
    df,            \* the DataFrame after the transformation (lines 68-77)
    selected_series, \* the selectbox value (line 87)
    filtered_data, \* rows of the selected series with Rolling_Avg (lines 89, 114)
    metrics,       \* max / min / mean of the filtered values (lines 103-105)
    window_size,   \* the slider value (line 113)
    rendered       \* the outputs put on the page so far

vars == <<pc, json_data, error_shown, bls_list, txt_files, csv_file, df,
          selected_series, filtered_data, metrics, window_size, rendered>>

----------------------------------------------------------------------------
(* Bounds of the model. *)

\* result objects in one response
MaxSeries == 2
\* observations in one response, over all its result objects
MaxRows == 2

----------------------------------------------------------------------------
(* String literals of the program, as code points. *)

\* "REQUEST_SUCCEEDED" and the other statuses are only compared for equality
RequestSucceeded == "REQUEST_SUCCEEDED"
FailStatuses == {"REQUEST_FAILED", "REQUEST_NOT_PROCESSED"}

\* "Error in BLS API response: "
ErrorPrefix == <<69,114,114,111,114,32,105,110,32,66,76,83,32,65,80,73,32,114,101,115,112,111,110,115,101,58,32>>
\* "Unknown error"
UnknownError == <<85,110,107,110,111,119,110,32,101,114,114,111,114>>
\* "CUUR0000SA0"
CUUR == <<67,85,85,82,48,48,48,48,83,65,48>>
\* "SUUR0000SA0"
SUUR == <<83,85,85,82,48,48,48,48,83,65,48>>
\* payload["seriesid"]
SeriesIds == {CUUR, SUUR}
\* "M01" and "M12", the ends of the period filter
M01 == <<77,48,49>>
M12 == <<77,49,50>>
\* "M"
CharM == <<77>>
\* ", "
CommaSpace == <<44,32>>
\* "-"
Dash == <<45>>
\* the slider's range and default
MinWindow == 1
MaxWindow == 12
DefaultWindow == 3
\* the columns of the flattened table
Columns == <<"Series ID", "Year", "Period", "Value", "Footnotes">>

\* code points of the decimal digits
Digits == 48..57

----------------------------------------------------------------------------
(* Python primitives used by main(). *)

\* a <= b for Python strings: code point by code point, a prefix is smaller
RECURSIVE StrLeq(_, _)
StrLeq(a, b) ==
    IF a = <<>> THEN TRUE
    ELSE IF b = <<>> THEN FALSE
    ELSE IF Head(a) < Head(b) THEN TRUE
    ELSE IF Head(a) > Head(b) THEN FALSE
    ELSE StrLeq(Tail(a), Tail(b))

StrLess(a, b) == StrLeq(a, b) /\ a # b

\* sep.join(texts)
RECURSIVE Join(_, _)
Join(texts, sep) ==
    IF texts = <<>> THEN <<>>
    ELSE IF Len(texts) = 1 THEN texts[1]
    ELSE texts[1] \o sep \o Join(Tail(texts), sep)

\* s.replace(old, '') for a one-character old: every occurrence goes
StrRemove(s, old) == SelectSeq(s, LAMBDA c : c # old[1])

\* does int(s) succeed: a non-empty string of decimal digits
IsIntLiteral(s) == s # <<>> /\ \A i \in 1..Len(s) : s[i] \in Digits

\* int(s) for a string of decimal digits
RECURSIVE DecimalValue(_)
DecimalValue(s) ==
    IF s = <<>> THEN 0
    ELSE 10 * DecimalValue(SubSeq(s, 1, Len(s) - 1)) + (s[Len(s)] - 48)

\* str(n) for n >= 0
RECURSIVE IntToStr(_)
IntToStr(n) ==
    IF n < 10 THEN <<48 + n>>
    ELSE IntToStr(n \div 10) \o <<48 + (n % 10)>>

\* a float column entry: a number or NaN
NaN == [ok |-> FALSE, num |-> 0]
Num(n) == [ok |-> TRUE, num |-> n]

\* pd.to_numeric(v, errors='coerce') on one entry
ToNumericCoerce(v) == IF IsIntLiteral(v) THEN Num(DecimalValue(v)) ELSE NaN

----------------------------------------------------------------------------
(* The inputs: the responses the API can send. *)

NoMessage == [present |-> FALSE, text |-> <<>>]
Message(t) == [present |-> TRUE, text |-> t]
\* absent, "", "bad"
Messages == {NoMessage, Message(<<>>), Message(<<98,97,100>>)}

\* a footnote object: {} or {"text": t}
EmptyFoot == [has_text |-> FALSE, text |-> <<>>]
Foot(t) == [has_text |-> TRUE, text |-> t]

Obs(y, p, v, f) == [year |-> y, period |-> p, value |-> v, footnotes |-> f]

\* the observations a response is built from
ObsDomain ==
    { Obs(<<50,48,49,50>>, <<77,48,49>>, <<49,48>>, <<>>),               \* 2012 M01 "10"
      Obs(<<50,48,49,49>>, <<77,49,50>>, <<50,48>>, <<Foot(<<112>>), Foot(<<112>>)>>),  \* 2011 M12 "20" p, p
      Obs(<<50,48,49,49>>, <<77,48,49>>, Dash, <<EmptyFoot>>),           \* 2011 M01 "-"
      Obs(<<50,48,49,49>>, <<77,49,51>>, <<51,48>>, <<>>),               \* 2011 M13 "30"
      Obs(<<50,48,49,49>>, <<83,48,49>>, <<51,48>>, <<>>),               \* 2011 S01 "30"
      Obs(<<50,48,49,49>>, <<77,49>>, <<51,48>>, <<>>),                  \* 2011 M1  "30"
      Obs(<<50,48,49,49>>, <<77,48,65>>, <<51,48>>, <<>>),               \* 2011 M0A "30"
      Obs(<<57,57,57>>, <<77,48,49>>, <<51,48>>, <<>>) }                 \* 999  M01 "30"

\* the lengths of the data lists of the first n result objects, added up
RECURSIVE TotalSize(_, _)
TotalSize(sizes, n) == IF n = 0 THEN 0 ELSE sizes[n] + TotalSize(sizes, n - 1)

\* the result objects with these ids and data lengths, their observations
\* taken in order from obs
BuildSeries(ids, sizes, obs) ==
    [i \in 1..Len(ids) |->
        [seriesID |-> ids[i],
         data |-> SubSeq(obs, TotalSize(sizes, i - 1) + 1, TotalSize(sizes, i))]]

Response(s, m, r) == [status |-> s, message |-> m, series |-> r]

\* the Results a failed response may still carry
FailureSeries ==
    { <<>> } \cup { <<[seriesID |-> id, data |-> <<o>>]>> : id \in SeriesIds, o \in ObsDomain }

NoResponse == Response("", NoMessage, <<>>)

----------------------------------------------------------------------------
(* Status check, lines 31-33. *)

\* variant: only the status REQUEST_FAILED is taken for a failure
IsFailureOnlyFailed(resp) == resp.status = "REQUEST_FAILED"
IsFailure(resp) == resp.status # RequestSucceeded

\* variant: json_data.get('message') or 'Unknown error'
GetMessageOrFallback(resp) ==
    IF resp.message.present /\ resp.message.text # <<>> THEN resp.message.text ELSE UnknownError
\* json_data.get('message', 'Unknown error')
GetMessage(resp) == IF resp.message.present THEN resp.message.text ELSE UnknownError

\* f"Error in BLS API response: {...}"
ErrorText(resp) == ErrorPrefix \o GetMessage(resp)

----------------------------------------------------------------------------
(* Normalizer, lines 36-53. *)

\* "M01" <= period <= "M12"
KeepPeriod(period) == StrLeq(M01, period) /\ StrLeq(period, M12)

\* [foot['text'] for foot in item['footnotes'] if foot and 'text' in foot]
FootnoteTexts(footnotes) ==
    LET kept == SelectSeq(footnotes, LAMBDA foot : foot.has_text)
    IN  [i \in 1..Len(kept) |-> kept[i].text]

FlatRow(series_id, item) ==
    [series_id |-> series_id, year |-> item.year, period |-> item.period,
     value |-> item.value, footnotes |-> Join(FootnoteTexts(item.footnotes), CommaSpace)]

\* the rows one result object adds to bls_list and to its table x
RECURSIVE SeriesRows(_, _)
SeriesRows(series_id, data) ==
    IF data = <<>> THEN <<>>
    ELSE (IF KeepPeriod(Head(data).period)
          THEN <<FlatRow(series_id, Head(data))>> ELSE <<>>)
         \o SeriesRows(series_id, Tail(data))

\* bls_list after the loop over the result objects
RECURSIVE Flatten(_)
Flatten(series) ==
    IF series = <<>> THEN <<>>
    ELSE SeriesRows(Head(series).seriesID, Head(series).data) \o Flatten(Tail(series))

NoFile == [exists |-> FALSE, rows |-> <<>>]
\* variant: the file opened with 'a', the table put behind the old content
WriteFileAppend(old, rows) == [exists |-> TRUE, rows |-> old.rows \o rows]
\* open(name, 'w') and write: the old content is replaced by the table
WriteFile(old, rows) == [exists |-> TRUE, rows |-> rows]

\* the .txt files after the loop, starting from files
RECURSIVE WriteSeriesFiles(_, _)
WriteSeriesFiles(series, files) ==
    IF series = <<>> THEN files
    ELSE LET s == Head(series)
         IN  WriteSeriesFiles(Tail(series),
                 [files EXCEPT ![s.seriesID] =
                               WriteFile(files[s.seriesID], SeriesRows(s.seriesID, s.data))])

\* variant: to_csv with header=False
ToCsvNoHeader(rows) == rows
\* df.to_csv("bls_data.csv", index=False): the header line, then one line per row
ToCsv(rows) == <<Columns>> \o rows

----------------------------------------------------------------------------
(* Transformer, lines 68-77. *)

\* df['Period'].str.replace('M', '', regex=False), one entry
MonthText(period) == StrRemove(period, CharM)

\* does .astype(int) raise ValueError on some entry of the column
MonthConversionFails(rows) ==
    \E i \in 1..Len(rows) : ~IsIntLiteral(MonthText(rows[i].period))

\* one row after lines 68-74: Month and Year-Month added, Value coerced,
\* Footnotes and Period dropped
TransformRow(r) ==
    LET month == DecimalValue(MonthText(r.period))
    IN  [series_id |-> r.series_id, year |-> r.year, value |-> ToNumericCoerce(r.value),
         month |-> month, year_month |-> r.year \o Dash \o IntToStr(month)]

\* variant: rows with a missing value dropped after the coercion (dropna)
TransformRowsDropna(rows) ==
    SelectSeq([i \in 1..Len(rows) |-> TransformRow(rows[i])], LAMBDA r : r.value.ok)
TransformRows(rows) == [i \in 1..Len(rows) |-> TransformRow(rows[i])]

\* the sort key by=['Series ID','Year','Month'], ascending: a before b
KeyLess(a, b) ==
    \/ StrLess(a.series_id, b.series_id)
    \/ /\ a.series_id = b.series_id
       /\ \/ StrLess(a.year, b.year)
          \/ a.year = b.year /\ a.month < b.month

\* r put into a sorted table behind every row that is not after it (stable)
RECURSIVE InsertSorted(_, _)
InsertSorted(sorted, r) ==
    IF sorted = <<>> THEN <<r>>
    ELSE IF KeyLess(r, Head(sorted)) THEN <<r>> \o sorted
    ELSE <<Head(sorted)>> \o InsertSorted(Tail(sorted), r)

\* df.sort_values(...) with reset_index(drop=True)
RECURSIVE SortValues(_)
SortValues(rows) ==
    IF rows = <<>> THEN <<>>
    ELSE InsertSorted(SortValues(SubSeq(rows, 1, Len(rows) - 1)), rows[Len(rows)])

----------------------------------------------------------------------------
(* Presenter, lines 86-114. *)

\* df['Series ID'].unique(): the distinct ids in order of first appearance
RECURSIVE Unique(_)
Unique(rows) ==
    IF rows = <<>> THEN <<>>
    ELSE LET front == Unique(SubSeq(rows, 1, Len(rows) - 1))
             id == rows[Len(rows)].series_id
         IN  IF \E i \in 1..Len(front) : front[i] = id THEN front ELSE front \o <<id>>

\* the selectbox value: None when it has no options
NoSelection == [some |-> FALSE, id |-> <<>>]
Selected(id) == [some |-> TRUE, id |-> id]

\* variant: the selectbox offers the ids of the payload, whatever the table holds
SelectboxValuesPayload(series_list) == {Selected(id) : id \in SeriesIds}
\* the values st.sidebar.selectbox can return for these options
SelectboxValues(series_list) ==
    IF series_list = <<>> THEN {NoSelection}
    ELSE {Selected(series_list[i]) : i \in 1..Len(series_list)}

\* df[df['Series ID'] == selected_series]
FilterSeries(rows, sel) ==
    SelectSeq(rows, LAMBDA r : sel.some /\ r.series_id = sel.id)

\* the non-missing numbers of the Value column
ValidValues(rows) == {i \in 1..Len(rows) : rows[i].value.ok}

\* a mean as the fraction num / den, or missing
NoMean == [ok |-> FALSE, num |-> 0, den |-> 1]
Mean(total, count) == [ok |-> TRUE, num |-> total, den |-> count]

RECURSIVE SumValues(_, _, _)
SumValues(rows, from, to) ==
    IF from > to THEN 0
    ELSE (IF rows[to].value.ok THEN rows[to].value.num ELSE 0) + SumValues(rows, from, to - 1)

\* Series.max(), .min(), .mean(): missing values skipped, NaN when none is left
ComputeMetrics(rows) ==
    LET valid == ValidValues(rows)
    IN  IF valid = {} THEN [rows |-> Len(rows), max |-> NaN, min |-> NaN, mean |-> NoMean]
        ELSE [rows |-> Len(rows),
              max |-> Num(CHOOSE m \in {rows[i].value.num : i \in valid} :
                              \A i \in valid : rows[i].value.num <= m),
              min |-> Num(CHOOSE m \in {rows[i].value.num : i \in valid} :
                              \A i \in valid : rows[i].value.num >= m),
              mean |-> Mean(SumValues(rows, 1, Len(rows)), Cardinality(valid))]

NoMetrics == [rows |-> 0, max |-> NaN, min |-> NaN, mean |-> NoMean]

\* variant: rolling(window=w, min_periods=1)
RollingMeanAtMinPeriods1(rows, w, i) ==
    LET from == IF i < w THEN 1 ELSE i - w + 1
        valid == {j \in from..i : rows[j].value.ok}
    IN  IF valid = {} THEN NoMean ELSE Mean(SumValues(rows, from, i), Cardinality(valid))
\* Series.rolling(window=w).mean() at row i: min_periods is the window, so the
\* result is missing unless the window holds w non-missing values
RollingMeanAt(rows, w, i) ==
    IF i < w THEN NoMean
    ELSE IF \E j \in (i - w + 1)..i : ~rows[j].value.ok THEN NoMean
    ELSE Mean(SumValues(rows, i - w + 1, i), w)

\* filtered_data with its Rolling_Avg column
WithRollingAvg(rows, w) ==
    [i \in 1..Len(rows) |->
        [series_id |-> rows[i].series_id, year |-> rows[i].year, value |-> rows[i].value,
         month |-> rows[i].month, year_month |-> rows[i].year_month,
         rolling_avg |-> RollingMeanAt(rows, w, i)]]

\* filtered_data before line 114
WithoutRollingAvg(rows) ==
    [i \in 1..Len(rows) |->
        [series_id |-> rows[i].series_id, year |-> rows[i].year, value |-> rows[i].value,
         month |-> rows[i].month, year_month |-> rows[i].year_month,
         rolling_avg |-> NoMean]]

----------------------------------------------------------------------------
(* The run of main(). *)

Init ==
    /\ pc = "start"
    /\ json_data = NoResponse
    /\ error_shown = [shown |-> FALSE, text |-> <<>>]
    /\ bls_list = <<>>
    /\ txt_files = [id \in SeriesIds |-> NoFile]
    /\ csv_file = [exists |-> FALSE, lines |-> <<>>]
    /\ df = <<>>
    /\ selected_series = NoSelection
    /\ filtered_data = <<>>
    /\ metrics = NoMetrics
    /\ window_size = DefaultWindow
    /\ rendered = {}

\* lines 27-28: the request is sent and the response decoded
Fetch ==
    /\ pc = "start"
    /\ \/ \E n \in 0..MaxSeries :
             \E ids \in [1..n -> SeriesIds], sizes \in [1..n -> 0..MaxRows] :
                /\ TotalSize(sizes, n) <= MaxRows
                /\ \E obs \in [1..TotalSize(sizes, n) -> ObsDomain] :
                      json_data' = Response(RequestSucceeded, NoMessage,
                                            BuildSeries(ids, sizes, obs))
       \/ \E s \in FailStatuses, m \in Messages, r \in FailureSeries :
             json_data' = Response(s, m, r)
    /\ pc' = "check"
    /\ UNCHANGED <<error_shown, bls_list, txt_files, csv_file, df, selected_series,
                   filtered_data, metrics, window_size, rendered>>

\* lines 31-33: st.error and st.stop on any status but success
StatusCheck ==
    /\ pc = "check"
    /\ IF IsFailure(json_data)
       THEN /\ error_shown' = [shown |-> TRUE, text |-> ErrorText(json_data)]
            /\ rendered' = rendered \cup {"error"}
            /\ pc' = "stopped"
       ELSE /\ pc' = "normalize"
            /\ UNCHANGED <<error_shown, rendered>>
    /\ UNCHANGED <<json_data, bls_list, txt_files, csv_file, df, selected_series,
                   filtered_data, metrics, window_size>>

\* lines 36-53: the loop over the result objects
Normalize ==
    /\ pc = "normalize"
    /\ bls_list' = Flatten(json_data.series)
    /\ txt_files' = WriteSeriesFiles(json_data.series, txt_files)
    /\ pc' = "csv"
    /\ UNCHANGED <<json_data, error_shown, csv_file, df, selected_series,
                   filtered_data, metrics, window_size, rendered>>

\* lines 56-61: the DataFrame, bls_data.csv and the preview
SaveCsv ==
    /\ pc = "csv"
    /\ csv_file' = [exists |-> TRUE, lines |-> ToCsv(bls_list)]
    /\ rendered' = rendered \cup {"preview"}
    /\ pc' = "transform"
    /\ UNCHANGED <<json_data, error_shown, bls_list, txt_files, df, selected_series,
                   filtered_data, metrics, window_size>>

\* lines 68-80: astype(int) raises on a period that is no integer after the
\* replace, and the run ends with the exception
Transform ==
    /\ pc = "transform"
    /\ IF MonthConversionFails(bls_list)
       THEN /\ pc' = "crashed"
            /\ UNCHANGED <<df, rendered>>
       ELSE /\ df' = SortValues(TransformRows(bls_list))
            /\ rendered' = rendered \cup {"transformed"}
            /\ pc' = "select"
    /\ UNCHANGED <<json_data, error_shown, bls_list, txt_files, csv_file, selected_series,
                   filtered_data, metrics, window_size>>

\* lines 86-109: the selectbox, the filter, the trend chart and the metrics
SelectSeries ==
    /\ pc = "select"
    /\ \E sel \in SelectboxValues(Unique(df)) :
          /\ selected_series' = sel
          /\ filtered_data' = WithoutRollingAvg(FilterSeries(df, sel))
          /\ metrics' = ComputeMetrics(FilterSeries(df, sel))
    /\ rendered' = rendered \cup {"trend_chart", "metrics"}
    /\ pc' = "rolling"
    /\ UNCHANGED <<json_data, error_shown, bls_list, txt_files, csv_file, df, window_size>>

\* lines 113-130: the slider, the rolling average and the last two charts
RollingAverage ==
    /\ pc = "rolling"
    /\ \E w \in MinWindow..MaxWindow :
          /\ window_size' = w
          /\ filtered_data' = WithRollingAvg(filtered_data, w)
    /\ rendered' = rendered \cup {"rolling_chart", "plotly_chart", "success"}
    /\ pc' = "done"
    /\ UNCHANGED <<json_data, error_shown, bls_list, txt_files, csv_file, df,
                   selected_series, metrics>>

Next ==
    \/ Fetch
    \/ StatusCheck
    \/ Normalize
    \/ SaveCsv
    \/ Transform
    \/ SelectSeries
    \/ RollingAverage

Spec == Init /\ [][Next]_vars

TypeOK ==
    /\ pc \in {"start", "check", "normalize", "csv", "transform", "select", "rolling",
               "done", "stopped", "crashed"}
    /\ window_size \in MinWindow..MaxWindow

----------------------------------------------------------------------------
(* Vocabulary of the properties. *)

\* the positions of main() behind the flattening loop, the CSV dump and the
\* transformation
AfterNormalize == {"csv", "transform", "crashed", "select", "rolling", "done"}
AfterCsv == {"transform", "crashed", "select", "rolling", "done"}
AfterTransform == {"select", "rolling", "done"}
AfterSelect == {"rolling", "done"}

\* the twelve month codes "M01" .. "M12"
MonthCodes == { <<77, 48, d>> : d \in 49..57 } \cup { <<77, 49, d>> : d \in 48..50 }

\* the observations of a response in document order, each with its series id
RECURSIVE Items(_)
Items(series) ==
    IF series = <<>> THEN <<>>
    ELSE [i \in 1..Len(Head(series).data) |->
             [series_id |-> Head(series).seriesID, item |-> Head(series).data[i]]]
         \o Items(Tail(series))

\* the series ids a response carries
ResponseIds(series) == { series[i].seriesID : i \in 1..Len(series) }

\* the index of the last result object with this id
LastObject(series, id) ==
    CHOOSE i \in 1..Len(series) :
        /\ series[i].seriesID = id
        /\ \A j \in 1..Len(series) : series[j].seriesID = id => j <= i

\* the total of the values at rows from..to, every one of them a number
RECURSIVE WindowTotal(_, _, _)
WindowTotal(rows, from, to) ==
    IF from > to THEN 0 ELSE rows[from].value.num + WindowTotal(rows, from + 1, to)

\* some value in the window ending at row i is missing
WindowHasMissing(rows, w, i) == \E j \in (i - w + 1)..i : j >= 1 /\ ~rows[j].value.ok

----------------------------------------------------------------------------
(* C1: after a response whose status is not REQUEST_SUCCEEDED the run goes   *)
(* no further than the status check: no flattened table, no .txt file, no   *)
(* bls_data.csv, no DataFrame, and nothing rendered but the error.          *)
C1_FailureHalts ==
    json_data.status # RequestSucceeded =>
        /\ pc \in {"start", "check", "stopped"}
        /\ bls_list = <<>>
        /\ \A id \in SeriesIds : ~txt_files[id].exists
        /\ ~csv_file.exists
        /\ df = <<>>
        /\ filtered_data = <<>>
        /\ rendered \subseteq {"error"}

\* a failed response that carries a monthly observation has been stopped
C1_Witness ==
    /\ pc = "stopped"
    /\ json_data.status = "REQUEST_NOT_PROCESSED"
    /\ \E i \in 1..Len(Items(json_data.series)) :
          Items(json_data.series)[i].item.period \in MonthCodes

----------------------------------------------------------------------------
(* C2 as stated: the displayed message equals the server's message when it  *)
(* is present, and is one fixed string when it is absent.                   *)
C2_MessageVerbatim ==
    error_shown.shown =>
        IF json_data.message.present
        THEN error_shown.text = json_data.message.text
        ELSE error_shown.text = ErrorPrefix \o UnknownError

(* C2 amended: on a failed status an error is displayed; its text is the    *)
(* prefix "Error in BLS API response: " followed by the server's message    *)
(* when the field is present (also when it is empty), and followed by       *)
(* "Unknown error" when it is absent.                                       *)
C2_MessageAfterPrefix ==
    /\ pc = "stopped" => error_shown.shown
    /\ error_shown.shown =>
          /\ json_data.status # RequestSucceeded
          /\ error_shown.text =
                ErrorPrefix \o (IF json_data.message.present
                                THEN json_data.message.text ELSE UnknownError)

\* an error with an empty server message has been displayed
C2_Witness ==
    /\ pc = "stopped"
    /\ error_shown.shown
    /\ json_data.message.present
    /\ json_data.message.text = <<>>

----------------------------------------------------------------------------
(* C3: a row is in the flattened table only if its period is one of the     *)
(* twelve codes "M01" .. "M12", and every observation with such a period is *)
(* kept.                                                                    *)
C3_OnlyMonthCodes ==
    pc \in AfterNormalize =>
        /\ \A i \in 1..Len(bls_list) : bls_list[i].period \in MonthCodes
        /\ Len(bls_list) =
              Cardinality({i \in 1..Len(Items(json_data.series)) :
                              Items(json_data.series)[i].item.period \in MonthCodes})

----------------------------------------------------------------------------
(* C4: for every row that passed the period filter the transformation       *)
(* succeeds, and the month is the integer behind the leading "M" of the     *)
(* period, in 1..12.                                                        *)
C4_MonthFromPeriod ==
    /\ pc # "crashed"
    /\ pc \in AfterTransform =>
          /\ \A i \in 1..Len(df) : df[i].month \in 1..12
          /\ \A j \in 1..Len(bls_list) :
                /\ Head(bls_list[j].period) = 77
                /\ IsIntLiteral(Tail(bls_list[j].period))
                /\ \E i \in 1..Len(df) :
                      /\ df[i].series_id = bls_list[j].series_id
                      /\ df[i].year = bls_list[j].year
                      /\ df[i].month = DecimalValue(Tail(bls_list[j].period))

----------------------------------------------------------------------------
(* C5: in the transformed table the rows of one series id are contiguous,   *)
(* the series ids ascend, and within one series id a row with the smaller   *)
(* (year, month), taken as numbers, comes first.  Stated for the tables     *)
(* whose periods are all among the twelve month codes.                      *)
C5_SortedByNumbers ==
    (pc \in AfterTransform /\ \A k \in 1..Len(bls_list) : bls_list[k].period \in MonthCodes) =>
        \A i, j \in 1..Len(df) :
            i < j =>
                /\ StrLeq(df[i].series_id, df[j].series_id)
                /\ df[i].series_id = df[j].series_id =>
                      \/ DecimalValue(df[i].year) < DecimalValue(df[j].year)
                      \/ /\ DecimalValue(df[i].year) = DecimalValue(df[j].year)
                         /\ df[i].month <= df[j].month

----------------------------------------------------------------------------
(* C6 as stated: the rolling average at row i (from 1) is missing exactly   *)
(* when i < w, and otherwise is the mean of the w values ending at row i.   *)
C6_RollingMean ==
    pc = "done" =>
        \A i \in 1..Len(filtered_data) :
            /\ ~filtered_data[i].rolling_avg.ok <=> i < window_size
            /\ filtered_data[i].rolling_avg.ok =>
                  filtered_data[i].rolling_avg.num * window_size =
                      WindowTotal(filtered_data, i - window_size + 1, i)
                          * filtered_data[i].rolling_avg.den

(* C6 amended: the rolling average at row i is missing exactly when i < w   *)
(* or one of the w values ending at row i is missing; otherwise it is the   *)
(* arithmetic mean of those w values.                                       *)
C6_RollingMeanOfPresentValues ==
    pc = "done" =>
        \A i \in 1..Len(filtered_data) :
            /\ ~filtered_data[i].rolling_avg.ok <=>
                  (i < window_size \/ WindowHasMissing(filtered_data, window_size, i))
            /\ filtered_data[i].rolling_avg.ok =>
                  filtered_data[i].rolling_avg.num * window_size =
                      WindowTotal(filtered_data, i - window_size + 1, i)
                          * filtered_data[i].rolling_avg.den

\* window 2 over two rows: no average at the first row, the average of two
\* different numbers at the second
C6_Witness ==
    /\ pc = "done"
    /\ window_size = 2
    /\ Len(filtered_data) = 2
    /\ ~filtered_data[1].rolling_avg.ok
    /\ filtered_data[2].rolling_avg.ok
    /\ filtered_data[1].value.ok
    /\ filtered_data[1].value.num # filtered_data[2].value.num

----------------------------------------------------------------------------
(* C7: a value that is no number neither ends the run nor drops a row: the  *)
(* transformed table has as many rows as the flattened one, each row with   *)
(* such a value is kept with a missing value, each other row keeps its      *)
(* number; the run ends in the transformation only on a period that is no   *)
(* integer.                                                                 *)
C7_ValueCoercionKeepsRows ==
    /\ pc = "crashed" =>
          \E j \in 1..Len(bls_list) : ~IsIntLiteral(StrRemove(bls_list[j].period, CharM))
    /\ pc \in AfterTransform =>
          /\ Len(df) = Len(bls_list)
          /\ \A j \in 1..Len(bls_list) :
                LET want == IF IsIntLiteral(bls_list[j].value)
                            THEN Num(DecimalValue(bls_list[j].value)) ELSE NaN
                IN  Cardinality({k \in 1..Len(bls_list) :
                                    /\ bls_list[k].series_id = bls_list[j].series_id
                                    /\ bls_list[k].year = bls_list[j].year
                                    /\ bls_list[k].period = bls_list[j].period
                                    /\ bls_list[k].value = bls_list[j].value})
                    = Cardinality({i \in 1..Len(df) :
                                    /\ df[i].series_id = bls_list[j].series_id
                                    /\ df[i].year = bls_list[j].year
                                    /\ df[i].month = DecimalValue(StrRemove(bls_list[j].period, CharM))
                                    /\ df[i].value = want})

\* a finished run whose table holds a missing value next to a number
C7_Witness ==
    /\ pc = "done"
    /\ \E i, k \in 1..Len(df) : ~df[i].value.ok /\ df[k].value.ok
    /\ \E j \in 1..Len(bls_list) : bls_list[j].value = Dash

----------------------------------------------------------------------------
(* C8: bls_data.csv is written from the flattened table before the          *)
(* transformation: it exists from the CSV step on, holds the header and     *)
(* then the flattened rows as they are, and for every series id as many     *)
(* rows as observations of that id pass the period filter.                  *)
C8_CsvRowCounts ==
    /\ csv_file.exists <=> pc \in AfterCsv
    /\ csv_file.exists =>
          /\ Len(csv_file.lines) = 1 + Len(bls_list)
          /\ \A i \in 1..Len(bls_list) : csv_file.lines[i + 1] = bls_list[i]
          /\ \A id \in SeriesIds :
                Cardinality({i \in 2..Len(csv_file.lines) : csv_file.lines[i].series_id = id})
                = Cardinality({i \in 1..Len(Items(json_data.series)) :
                                  /\ Items(json_data.series)[i].series_id = id
                                  /\ StrLeq(M01, Items(json_data.series)[i].item.period)
                                  /\ StrLeq(Items(json_data.series)[i].item.period, M12)})

\* a finished run with a row in the file and an observation of the same
\* series that the filter removed
C8_Witness ==
    /\ pc = "done"
    /\ Len(csv_file.lines) = 2
    /\ Len(Items(json_data.series)) = 2
    /\ \A i \in 1..2 : Items(json_data.series)[i].series_id = csv_file.lines[2].series_id

----------------------------------------------------------------------------
(* C9 as stated: in every run that reaches the Presenter the selected       *)
(* series is an id of the transformed table, and the filtered series and    *)
(* the metrics have at least one row.                                       *)
C9_SelectionNeverEmpty ==
    pc \in AfterSelect =>
        /\ selected_series.some
        /\ \E i \in 1..Len(df) : df[i].series_id = selected_series.id
        /\ Len(filtered_data) >= 1
        /\ metrics.rows >= 1

(* C9 amended: in every run that reaches the Presenter with a non-empty     *)
(* transformed table the selected series is an id of that table and the     *)
(* filtered series and the metrics have at least one row; with an empty     *)
(* table (no series, or no observation kept) nothing is selected and the    *)
(* filtered series and the metrics have no row.                             *)
C9_SelectionFromTable ==
    pc \in AfterSelect =>
        IF df = <<>>
        THEN /\ ~selected_series.some
             /\ filtered_data = <<>>
             /\ metrics.rows = 0
             /\ ~metrics.max.ok /\ ~metrics.min.ok /\ ~metrics.mean.ok
        ELSE /\ selected_series.some
             /\ \E i \in 1..Len(df) : df[i].series_id = selected_series.id
             /\ Len(filtered_data) >= 1
             /\ metrics.rows = Len(filtered_data)
             /\ \A i \in 1..Len(filtered_data) :
                   filtered_data[i].series_id = selected_series.id

\* a finished run over a table with one series only, that series selected
C9_Witness ==
    /\ pc = "done"
    /\ Len(df) >= 2
    /\ \A i \in 1..Len(df) : df[i].series_id = SUUR
    /\ selected_series = Selected(SUUR)
    /\ metrics.rows = Len(df)

----------------------------------------------------------------------------
(* C10 as stated: for every series id of the response, <series_id>.txt      *)
(* holds exactly the rows of that id in the flattened table, in order.      *)
C10_FileHoldsSeriesRows ==
    pc \in AfterNormalize =>
        \A id \in ResponseIds(json_data.series) :
            /\ txt_files[id].exists
            /\ txt_files[id].rows = SelectSeq(bls_list, LAMBDA r : r.series_id = id)

(* C10 amended: for every series id of the response, <series_id>.txt holds  *)
(* exactly the kept rows of the last result object with that id, in order;  *)
(* a file is written for every series id of the response, also one without  *)
(* kept rows, and for no other id.                                          *)
C10_FileHoldsLastObjectRows ==
    pc \in AfterNormalize =>
        \A id \in SeriesIds :
            IF id \in ResponseIds(json_data.series)
            THEN LET s == json_data.series[LastObject(json_data.series, id)]
                     kept == SelectSeq(s.data, LAMBDA item :
                                 StrLeq(M01, item.period) /\ StrLeq(item.period, M12))
                 IN  /\ txt_files[id].exists
                     /\ Len(txt_files[id].rows) = Len(kept)
                     /\ \A i \in 1..Len(kept) :
                           /\ txt_files[id].rows[i].series_id = id
                           /\ txt_files[id].rows[i].year = kept[i].year
                           /\ txt_files[id].rows[i].period = kept[i].period
                           /\ txt_files[id].rows[i].value = kept[i].value
            ELSE ~txt_files[id].exists

\* two result objects with the same id, both with kept rows, and the file
\* written
C10_Witness ==
    /\ pc = "done"
    /\ Len(json_data.series) = 2
    /\ json_data.series[1].seriesID = json_data.series[2].seriesID
    /\ \A k \in 1..2 : \E i \in 1..Len(json_data.series[k].data) :
          json_data.series[k].data[i].period \in MonthCodes
    /\ txt_files[json_data.series[1].seriesID].exists

====
